---- MODULE Spec2Model ----
(***************************************************************************)
(* Model of apps/houdini/stow/common/scripts/456.py: the Houdini startup   *)
(* script that rewrites the path environment variables JOB, POSE, SHOTS    *)
(* and ASSETS from the other platform's folder layout to the current one   *)
(* and registers fetch_parameter_values on hou.session.                    *)
(*                                                                         *)
(* Strings are sequences of chunks.  A chunk is a maximal piece of a path  *)
(* ("C:", "/Users", "/Dropbox", ...).  Every value the model builds is a   *)
(* concatenation of whole chunks, and no chunk of the alphabet occurs      *)
(* inside another chunk or across a chunk boundary, so the substring test  *)
(* and the replacement on chunk sequences agree with Python's `in` and     *)
(* str.replace on the character strings they stand for.                    *)
(***************************************************************************)
EXTENDS Integers, Sequences, FiniteSets, TLC

VARIABLES
    origin,         \* the environment store when the session's first load started
    sys_platform,   \* sys.platform of the host process
    env,            \* the host's environment store: name -> value, present names only
    env0,           \* the environment store when the script was started
    pc,             \* "start", "loop", "loaded"; "called" after a fetch_parameter_values call
    idx,            \* 1-based position of `for var in var_list`
    runs,           \* number of calls of update_environment_variables
    log,            \* hou.getenv / hou.putenv calls made so far, in order
    subst,          \* per variable: the str.replace calls that changed it
    session,        \* attributes assigned on hou.session
    session0,       \* hou.session's attributes when this load of the script started
    bridge          \* the last call of hou.session.fetch_parameter_values

vars == <<origin, sys_platform, env, env0, pc, idx, runs, log, subst, session, session0, bridge>>

----------------------------------------------------------------------------
(* Bounds *)

\* total number of pieces over all values of the initial environment
MaxParts == 2
\* largest number of inputs of the node returned by hou.pwd()
MaxInputs == 2
\* total number of pieces of the initial environment of a session that goes
\* on to call fetch_parameter_values
BridgeParts == 1

----------------------------------------------------------------------------
(* Module-level data of the script *)

var_list == <<"JOB", "POSE", "SHOTS", "ASSETS">>

\* variant: USD_LIB entered into the table before DROPBOX
folder_keys_usd_first == <<"USD_LIB", "DROPBOX", "COURSES", "PROJECTS">>

\* dict insertion order of folder_lookup, the order .items() iterates in
folder_keys == <<"DROPBOX", "USD_LIB", "COURSES", "PROJECTS">>

DarwinDropbox == <<"/Users", "/suhail", "/Library", "/CloudStorage", "/Dropbox">>
WindowsDropbox == <<"C:", "/Users", "/Suhail", "/Dropbox">>

folder_lookup ==
    [ DROPBOX  |-> [ darwin  |-> DarwinDropbox,
                     Windows |-> WindowsDropbox ],
      USD_LIB  |-> [ darwin  |-> DarwinDropbox \o <<"/threeD", "/lib", "/usd">>,
                     Windows |-> WindowsDropbox \o <<"/threeD", "/lib", "/usd">> ],
      COURSES  |-> [ darwin  |-> DarwinDropbox \o <<"/threeD", "/courses">>,
                     Windows |-> WindowsDropbox \o <<"/threeD", "/courses">> ],
      PROJECTS |-> [ darwin  |-> DarwinDropbox \o <<"/threeD", "/projects">>,
                     Windows |-> WindowsDropbox \o <<"/threeD", "/projects">> ] ]

current_platform == IF sys_platform = "darwin" THEN "darwin" ELSE "Windows"
\* variant: the conditional of other_platform tests for 'Windows'
other_platform_inverted == IF current_platform = "Windows" THEN "Windows" ELSE "darwin"

other_platform == IF current_platform = "darwin" THEN "Windows" ELSE "darwin"

----------------------------------------------------------------------------
(* Python string operations on chunk sequences *)

\* `old in s`
Contains(old, s) ==
    \E i \in 1..(Len(s) - Len(old) + 1) : SubSeq(s, i, i + Len(old) - 1) = old

\* number of occurrences s.replace(old, new) substitutes: non-overlapping,
\* leftmost first
RECURSIVE Count(_, _)
Count(s, old) ==
    IF Len(s) < Len(old) THEN 0
    ELSE IF SubSeq(s, 1, Len(old)) = old
         THEN 1 + Count(SubSeq(s, Len(old) + 1, Len(s)), old)
         ELSE Count(Tail(s), old)

\* variant: the whole value is overwritten with the new path
ReplaceWhole(s, old, new) ==
    IF \E i \in 1..(Len(s) - Len(old) + 1) : SubSeq(s, i, i + Len(old) - 1) = old
    THEN new ELSE s

\* variant: s.replace(old, new, 1), only the leftmost occurrence
RECURSIVE ReplaceFirst(_, _, _)
ReplaceFirst(s, old, new) ==
    IF Len(s) < Len(old) THEN s
    ELSE IF SubSeq(s, 1, Len(old)) = old
         THEN new \o SubSeq(s, Len(old) + 1, Len(s))
         ELSE <<Head(s)>> \o ReplaceFirst(Tail(s), old, new)

\* s.replace(old, new) for a non-empty old: every non-overlapping occurrence,
\* leftmost first
RECURSIVE Replace(_, _, _)
Replace(s, old, new) ==
    IF Len(s) < Len(old) THEN s
    ELSE IF SubSeq(s, 1, Len(old)) = old
         THEN new \o Replace(SubSeq(s, Len(old) + 1, Len(s)), old, new)
         ELSE <<Head(s)>> \o Replace(Tail(s), old, new)

----------------------------------------------------------------------------
(* Host environment store *)

\* hou.getenv(var): <<>> stands for None, <<v>> for the string v
getenv(e, var) == IF var \in DOMAIN e THEN <<e[var]>> ELSE <<>>

\* hou.putenv(var, value)
putenv(e, var, value) ==
    [x \in (DOMAIN e) \cup {var} |-> IF x = var THEN value ELSE e[x]]

\* `if current_value:` : neither None nor the empty string
Truthy(cv) == cv # <<>> /\ cv[1] # <<>>

----------------------------------------------------------------------------
(* update_environment_variables *)

\* variant: the inner loop without its break
RECURSIVE ScanNoBreak(_, _)
ScanNoBreak(k, current_value) ==
    IF k > Len(folder_keys) THEN <<>>
    ELSE LET paths == folder_lookup[folder_keys[k]]
         IN  IF Contains(paths[other_platform], current_value)
             THEN << [ key       |-> folder_keys[k],
                       count     |-> Count(current_value, paths[other_platform]),
                       new_value |-> Replace(current_value,
                                             paths[other_platform],
                                             paths[current_platform]) ] >>
                  \o ScanNoBreak(k + 1, current_value)
             ELSE ScanNoBreak(k + 1, current_value)

\* variant: replace, putenv and break outside the `if`
ScanAlwaysWrite(k, current_value) ==
    LET paths == folder_lookup[folder_keys[k]]
    IN  << [ key       |-> folder_keys[k],
             count     |-> Count(current_value, paths[other_platform]),
             new_value |-> Replace(current_value,
                                   paths[other_platform],
                                   paths[current_platform]) ] >>

\* the inner `for key, paths in folder_lookup.items()` from position k on:
\* the sequence of (key, new_value) it passes to hou.putenv
RECURSIVE Scan(_, _)
Scan(k, current_value) ==
    IF k > Len(folder_keys) THEN <<>>
    ELSE LET paths == folder_lookup[folder_keys[k]]
         IN  IF Contains(paths[other_platform], current_value)
             THEN << [ key       |-> folder_keys[k],
                       count     |-> Count(current_value, paths[other_platform]),
                       new_value |-> Replace(current_value,
                                             paths[other_platform],
                                             paths[current_platform]) ] >>
             ELSE Scan(k + 1, current_value)

\* variant: hou.putenv(var_list[0], new_value)
PutTargetFirst(i) == var_list[1]

\* the variable a hou.putenv of the loop body is given
PutTarget(i) == var_list[i]

\* the environment after the putenv calls ws for variable var
RECURSIVE ApplyWrites(_, _, _)
ApplyWrites(e, var, ws) ==
    IF ws = <<>> THEN e
    ELSE ApplyWrites(putenv(e, var, Head(ws).new_value), var, Tail(ws))

\* the host calls of the putenv calls ws for variable var
PutCalls(var, ws) ==
    [j \in 1..Len(ws) |-> [op |-> "putenv", var |-> var, value |-> ws[j].new_value]]

GetCall(var) == [op |-> "getenv", var |-> var, value |-> <<>>]

\* variant: the loop is left at the first variable that is not set
NextIdxAbort(i) == IF var_list[i] \in DOMAIN env THEN i + 1 ELSE Len(var_list) + 1

\* what the loop does once the body for var_list[i] is finished
NextIdx(i) == i + 1

CallUpdate ==
    /\ pc = "start"
    /\ pc' = "loop"
    /\ idx' = 1
    /\ runs' = runs + 1
    /\ UNCHANGED <<origin, sys_platform, env, env0, log, subst, session, session0, bridge>>

\* loop body when hou.getenv returned None or ""
SkipVar ==
    /\ pc = "loop"
    /\ idx <= Len(var_list)
    /\ ~Truthy(getenv(env, var_list[idx]))
    /\ log' = Append(log, GetCall(var_list[idx]))
    /\ idx' = NextIdx(idx)
    /\ UNCHANGED <<origin, sys_platform, env, env0, pc, runs, subst, session, session0, bridge>>

\* loop body when the value is non-empty: scan the table, write what it finds
ScanVar ==
    /\ pc = "loop"
    /\ idx <= Len(var_list)
    /\ Truthy(getenv(env, var_list[idx]))
    /\ LET var == var_list[idx]
           ws  == Scan(1, getenv(env, var)[1])
       IN  /\ env' = ApplyWrites(env, PutTarget(idx), ws)
           /\ log' = Append(log, GetCall(var)) \o PutCalls(PutTarget(idx), ws)
           /\ subst' = [subst EXCEPT ![var] = @ \o ws]
    /\ idx' = NextIdx(idx)
    /\ UNCHANGED <<origin, sys_platform, env0, pc, runs, session, session0, bridge>>

\* the function returns; def fetch_parameter_values; hou.session assignment
Register ==
    /\ pc = "loop"
    /\ idx > Len(var_list)
    /\ pc' = "loaded"
    /\ session' = session \cup {"fetch_parameter_values"}
    /\ UNCHANGED <<origin, sys_platform, env, env0, idx, runs, log, subst, session0, bridge>>

----------------------------------------------------------------------------
(* Initial states *)

Platforms == {"darwin", "win32", "linux"}

\* the pieces the initial values are concatenated from: the table's paths,
\* a path component that is in no table path, a separator, and the empty string
Pieces ==
    { folder_lookup[k][p] : k \in DOMAIN folder_lookup, p \in {"darwin", "Windows"} }
        \cup { <<"/extra">>, <<";">>, <<>> }

RECURSIVE Flatten(_)
Flatten(ss) == IF ss = <<>> THEN <<>> ELSE Head(ss) \o Flatten(Tail(ss))

\* the values made of exactly n pieces
ValuesOf(n) == { Flatten(ps) : ps \in [1..n -> Pieces] }

Listed == { var_list[i] : i \in 1..Len(var_list) }

\* a variable the script does not list
Unlisted == "HIP"

NoCall == [ called |-> FALSE, input_index |-> 0, parameter_name |-> "",
            inputs |-> <<>>, host |-> [kind |-> "none", val |-> <<>>],
            calls |-> <<>>, result |-> [kind |-> "none", val |-> <<>>] ]

InitRest ==
    /\ env0 = env
    /\ origin = env
    /\ pc = "start"
    /\ idx = 0
    /\ runs = 0
    /\ log = <<>>
    /\ subst = [v \in Listed |-> <<>>]
    /\ session = {}
    /\ session0 = {}
    /\ bridge = NoCall

\* the environment in which var_list[i] has the value vals[i], except for the
\* positions in unset, which have no value, and Unlisted has the value hip
EnvOf(vals, unset, hip) ==
    [x \in { var_list[i] : i \in (1..Len(var_list)) \ unset } \cup {Unlisted} |->
        IF x = Unlisted THEN hip
        ELSE vals[CHOOSE i \in 1..Len(var_list) : var_list[i] = x]]

\* the environments whose listed values have at most budget pieces in total;
\* a listed variable without pieces is not set
InitEnv(budget) ==
    \E n1 \in 0..budget : \E n2 \in 0..(budget - n1) :
    \E n3 \in 0..(budget - n1 - n2) : \E n4 \in 0..(budget - n1 - n2 - n3) :
    \E v1 \in ValuesOf(n1) : \E v2 \in ValuesOf(n2) :
    \E v3 \in ValuesOf(n3) : \E v4 \in ValuesOf(n4) :
        env = EnvOf(<<v1, v2, v3, v4>>,
                    { i \in 1..4 : <<n1, n2, n3, n4>>[i] = 0 },
                    folder_lookup["DROPBOX"][other_platform])

Init ==
    /\ sys_platform \in Platforms
    /\ InitEnv(MaxParts)
    /\ InitRest

----------------------------------------------------------------------------
(* The host loads the script again in the same session (456.py is run each *)
(* time a scene is loaded); the per-load history starts afresh.            *)

Reload ==
    /\ pc = "loaded"
    /\ pc' = "start"
    /\ idx' = 0
    /\ runs' = 0
    /\ env0' = env
    /\ log' = <<>>
    /\ subst' = [v \in Listed |-> <<>>]
    /\ session0' = session
    /\ UNCHANGED <<origin, sys_platform, env, session, bridge>>

----------------------------------------------------------------------------
(* fetch_parameter_values *)

Nodes == {"n1", "n2"}
ParameterNames == {"primpath", "x"}

Return(v) == [kind |-> "return", val |-> v]
Raise(e) == [kind |-> "raise", val |-> <<e>>]

\* what loputils.fetchParameterValues may do: return a value or raise
HostOutcomes == { Return(<<"/a">>), Return(<<>>), Raise("HostError") }

\* the tuples hou.pwd().inputs() may return
InputTuples == UNION { [1..n -> Nodes] : n \in 0..MaxInputs }

\* Python's t[i] on a tuple: negative indices count from the end
PyIndex(t, i) ==
    IF i >= 0 /\ i < Len(t) THEN Return(<<t[i + 1]>>)
    ELSE IF i < 0 /\ i >= -Len(t) THEN Return(<<t[Len(t) + i + 1]>>)
    ELSE Raise("IndexError")

ResolveCall(i, outcome) ==
    [op |-> "inputs", index |-> i, node |-> "", name |-> "", outcome |-> outcome]
FetchCall(node, name, outcome) ==
    [op |-> "fetchParameterValues", index |-> 0, node |-> node, name |-> name,
     outcome |-> outcome]

\* variant: the node is always hou.pwd().inputs()[0]
FetchFirstInput(inputs, input_index, parameter_name, host) ==
    LET node == PyIndex(inputs, 0)
    IN  IF node.kind = "raise"
        THEN [ calls |-> << ResolveCall(input_index, node) >>, result |-> node ]
        ELSE [ calls |-> << ResolveCall(input_index, node),
                            FetchCall(node.val[1], parameter_name, host) >>,
               result |-> host ]

\* variant: the lookup error is caught and an empty result returned
FetchSwallow(inputs, input_index, parameter_name, host) ==
    LET node == PyIndex(inputs, input_index)
    IN  IF node.kind = "raise"
        THEN [ calls |-> << ResolveCall(input_index, node) >>, result |-> Return(<<>>) ]
        ELSE [ calls |-> << ResolveCall(input_index, node),
                            FetchCall(node.val[1], parameter_name, host) >>,
               result |-> host ]

\* the host calls made and the outcome of fetch_parameter_values, given the
\* inputs of hou.pwd() and what loputils.fetchParameterValues does
fetch_parameter_values(inputs, input_index, parameter_name, host) ==
    LET node == PyIndex(inputs, input_index)
    IN  IF node.kind = "raise"
        THEN [ calls |-> << ResolveCall(input_index, node) >>, result |-> node ]
        ELSE [ calls |-> << ResolveCall(input_index, node),
                            FetchCall(node.val[1], parameter_name, host) >>,
               result |-> host ]

Fetch ==
    /\ pc = "loaded"
    /\ "fetch_parameter_values" \in session
    /\ \E inputs \in InputTuples :
       \E i \in (-(MaxInputs + 1))..(MaxInputs + 1) :
       \E p \in ParameterNames :
       \E host \in HostOutcomes :
          LET r == fetch_parameter_values(inputs, i, p, host)
          IN  bridge' = [ called |-> TRUE, input_index |-> i, parameter_name |-> p,
                          inputs |-> inputs, host |-> host,
                          calls |-> r.calls, result |-> r.result ]
    /\ pc' = "called"
    /\ UNCHANGED <<origin, sys_platform, env, env0, idx, runs, log, subst, session, session0>>

\* the caller has taken the returned value or the raised error
Resume ==
    /\ pc = "called"
    /\ pc' = "loaded"
    /\ bridge' = NoCall
    /\ UNCHANGED <<origin, sys_platform, env, env0, idx, runs, log, subst, session, session0>>

----------------------------------------------------------------------------
(* Specifications *)

\* one load of the script
Load == CallUpdate \/ SkipVar \/ ScanVar \/ Register

Next == Load \/ Reload

Spec == Init /\ [][Next]_vars

\* a session that loads the script and then calls the registered function
BridgeInit ==
    /\ sys_platform \in Platforms
    /\ InitEnv(BridgeParts)
    /\ InitRest

BridgeNext == Load \/ Fetch \/ Resume

BridgeSpec == BridgeInit /\ [][BridgeNext]_vars

----------------------------------------------------------------------------
(* Vocabulary of the properties *)

Other(key) == folder_lookup[key][other_platform]
Current(key) == folder_lookup[key][current_platform]

\* the script is past update_environment_variables and the registration
Done == pc \in {"loaded", "called"}

\* the loop body for var_list[i] has been executed in this load
Processed(i) == Done \/ (pc = "loop" /\ idx > i)

\* positions in folder_keys of the groups whose other-platform path is in v
Matching(v) == { k \in 1..Len(folder_keys) : Contains(Other(folder_keys[k]), v) }

FirstOf(S) == CHOOSE k \in S : \A j \in S : k <= j

IsPrefix(p, v) == Len(p) <= Len(v) /\ SubSeq(v, 1, Len(p)) = p
After(p, v) == SubSeq(v, Len(p) + 1, Len(v))

IsPut(c) == c.op = "putenv"
IsGet(c) == c.op = "getenv"

\* the hou.putenv calls of this load for variable var
WritesOf(var) == SelectSeq(log, LAMBDA c : IsPut(c) /\ c.var = var)

\* listed positions whose variable was set when the load started
Set0 == { i \in 1..Len(var_list) : var_list[i] \in DOMAIN env0 }

----------------------------------------------------------------------------
(* C1 *)

\* C1 as stated: when the value of a listed variable contains the
\* other-platform paths of more than one group, only the first group in
\* table order is substituted and exactly one substitution occurs in the value.
C1_OneSubstitution ==
    \A i \in Set0 :
        (Processed(i) /\ Cardinality(Matching(env0[var_list[i]])) > 1)
            => /\ Len(subst[var_list[i]]) = 1
               /\ subst[var_list[i]][1].key = folder_keys[FirstOf(Matching(env0[var_list[i]]))]
               /\ subst[var_list[i]][1].count = 1

\* C1 amended: when the value contains the other-platform paths of more than
\* one group, the scan stops at the first matching group in table order: one
\* str.replace and one hou.putenv are made for the variable, and the value
\* written is the old value with every occurrence of that group's
\* other-platform path replaced (one occurrence or more).
C1_FirstGroupOnly ==
    \A i \in Set0 :
        LET var == var_list[i]
            old == env0[var]
        IN  (Processed(i) /\ Cardinality(Matching(old)) > 1)
            => LET key == folder_keys[FirstOf(Matching(old))]
               IN  /\ Len(subst[var]) = 1
                   /\ subst[var][1].key = key
                   /\ subst[var][1].count = Count(old, Other(key))
                   /\ subst[var][1].count >= 1
                   /\ Len(WritesOf(var)) = 1
                   /\ env[var] = Replace(old, Other(key), Current(key))
                   /\ ~Contains(Other(key), env[var])

\* a value with two occurrences of the first group's path has been rewritten
C1_Witness ==
    /\ Done
    /\ \E i \in Set0 :
          /\ Cardinality(Matching(env0[var_list[i]])) > 1
          /\ Len(subst[var_list[i]]) = 1
          /\ subst[var_list[i]][1].count = 2

----------------------------------------------------------------------------
(* C2 *)

\* C2 as stated: a value that is a group's other-platform path followed by
\* any suffix s becomes the group's current-platform path followed by the
\* same s.
C2_AnySuffixKept ==
    \A i \in Set0 : \A key \in DOMAIN folder_lookup :
        (Processed(i) /\ IsPrefix(Other(key), env0[var_list[i]]))
            => env[var_list[i]] = Current(key) \o After(Other(key), env0[var_list[i]])

\* C2 amended: a value that is a group's other-platform path followed by a
\* suffix s becomes the group's current-platform path followed by s in which
\* every occurrence of the other-platform DROPBOX path is replaced by the
\* current-platform DROPBOX path; it is the same s when s contains no such
\* occurrence (in particular when s is empty or "/extra").
C2_SuffixKept ==
    \A i \in Set0 : \A key \in DOMAIN folder_lookup :
        LET old == env0[var_list[i]]
            new == env[var_list[i]]
            s   == After(Other(key), old)
        IN  (Processed(i) /\ IsPrefix(Other(key), old))
            => /\ IsPrefix(Current(key), new)
               /\ ~Contains(Other("DROPBOX"), s) => new = Current(key) \o s
               /\ ~Contains(Other("DROPBOX"), new)
               /\ Len(new) = Len(Current(key)) + Len(s)
                     + Count(s, Other("DROPBOX"))
                         * (Len(Current("DROPBOX")) - Len(Other("DROPBOX")))

\* the other-platform USD_LIB path followed by "/extra" has been rewritten
C2_Witness ==
    /\ Done
    /\ \E i \in Set0 :
          /\ env0[var_list[i]] = Other("USD_LIB") \o <<"/extra">>
          /\ env[var_list[i]] = Current("USD_LIB") \o <<"/extra">>

----------------------------------------------------------------------------
(* C3 *)

\* C3: a listed variable that is not set when update_environment_variables
\* runs gets no hou.putenv and is still not set afterwards, and the loop goes
\* on: every listed variable is read once, in order, and every set variable
\* whose value contains an other-platform path is rewritten.
C3_MissingSkipped ==
    /\ \A i \in 1..Len(var_list) :
          (Processed(i) /\ i \notin Set0)
              => /\ var_list[i] \notin DOMAIN env
                 /\ WritesOf(var_list[i]) = <<>>
    /\ Done =>
          /\ LET gets == SelectSeq(log, IsGet)
             IN  [j \in 1..Len(gets) |-> gets[j].var] = var_list
          /\ \A i \in Set0 :
                Matching(env0[var_list[i]]) # {}
                    => /\ Len(WritesOf(var_list[i])) = 1
                       /\ env[var_list[i]] # env0[var_list[i]]

\* the first listed variable is not set and a later one has been rewritten
C3_Witness ==
    /\ Done
    /\ 1 \notin Set0
    /\ var_list[1] \notin DOMAIN env
    /\ \E i \in Set0 : i > 1 /\ env[var_list[i]] # env0[var_list[i]]

----------------------------------------------------------------------------
(* C4 *)

\* C4: a listed variable whose value contains no group's other-platform path
\* keeps its value and gets no hou.putenv.
C4_NoMatchUntouched ==
    \A i \in Set0 :
        (Processed(i) /\ Matching(env0[var_list[i]]) = {})
            => /\ var_list[i] \in DOMAIN env
               /\ env[var_list[i]] = env0[var_list[i]]
               /\ WritesOf(var_list[i]) = <<>>

\* a non-empty value without an other-platform path has been processed
C4_Witness ==
    /\ Done
    /\ \E i \in Set0 :
          /\ env0[var_list[i]] = Current("PROJECTS") \o <<"/extra">>
          /\ env[var_list[i]] = env0[var_list[i]]

----------------------------------------------------------------------------
(* C5 *)

\* C5: for every platform identifier, current is 'darwin' exactly when the
\* identifier is 'darwin' and 'Windows' otherwise, other is the opposite tag,
\* the two differ, and both are keys of every table entry.
C5_PlatformTotal ==
    /\ current_platform = "darwin" <=> sys_platform = "darwin"
    /\ current_platform # "darwin" => current_platform = "Windows"
    /\ other_platform # current_platform
    /\ {current_platform, other_platform} = {"darwin", "Windows"}
    /\ \A key \in DOMAIN folder_lookup :
          {current_platform, other_platform} \subseteq DOMAIN folder_lookup[key]

\* on Linux a darwin path has been rewritten to the Windows one
C5_Witness ==
    /\ Done
    /\ sys_platform = "linux"
    /\ current_platform = "Windows"
    /\ other_platform = "darwin"
    /\ \E i \in Set0 :
          /\ env0[var_list[i]] = folder_lookup["DROPBOX"]["darwin"]
          /\ env[var_list[i]] = folder_lookup["DROPBOX"]["Windows"]

----------------------------------------------------------------------------
(* C6 *)

InRange(t, i) == i < Len(t) /\ i >= -Len(t)

\* the node Python's indexing selects for an index in range
NodeAt(t, i) == IF i >= 0 THEN t[i + 1] ELSE t[Len(t) + i + 1]

\* C6: once the script is loaded hou.session carries fetch_parameter_values;
\* a call with an index that resolves first resolves the node at that input,
\* then calls loputils.fetchParameterValues exactly once with that node and
\* the parameter name, and its outcome is the host's, unmodified.
C6_Delegates ==
    /\ Done => "fetch_parameter_values" \in session
    /\ (pc = "called" /\ InRange(bridge.inputs, bridge.input_index))
          => LET node == NodeAt(bridge.inputs, bridge.input_index)
             IN  /\ Len(bridge.calls) = 2
                 /\ bridge.calls[1] = ResolveCall(bridge.input_index, Return(<<node>>))
                 /\ bridge.calls[2] = FetchCall(node, bridge.parameter_name, bridge.host)
                 /\ bridge.result = bridge.host

\* fetch_parameter_values(1, "primpath") on two inputs returned the host's value
C6_Witness ==
    /\ pc = "called"
    /\ bridge.input_index = 1
    /\ bridge.parameter_name = "primpath"
    /\ bridge.inputs = <<"n1", "n2">>
    /\ bridge.calls[2].node = "n2"
    /\ bridge.result = Return(<<"/a">>)

----------------------------------------------------------------------------
(* C7 *)

\* C7: when the input lookup of a call raises (index beyond the inputs, or
\* negative beyond them), the call ends with that same error, makes no
\* loputils.fetchParameterValues call, and changes neither the environment
\* nor hou.session.
C7_LookupErrorPropagates ==
    [][ (pc = "loaded" /\ pc' = "called"
            /\ ~InRange(bridge'.inputs, bridge'.input_index))
        => /\ bridge'.result = Raise("IndexError")
           /\ Len(bridge'.calls) = 1
           /\ bridge'.calls[1].op = "inputs"
           /\ bridge'.result = bridge'.calls[1].outcome
           /\ env' = env
           /\ session' = session ]_vars

\* fetch_parameter_values(-1, "x") on a node without inputs raised
C7_Witness ==
    /\ pc = "called"
    /\ bridge.input_index = -1
    /\ bridge.parameter_name = "x"
    /\ bridge.inputs = <<>>
    /\ bridge.result = Raise("IndexError")

----------------------------------------------------------------------------
(* C8 *)

\* what update_environment_variables makes of the value v alone
Normalized(v) ==
    IF v = <<>> \/ Scan(1, v) = <<>> THEN v ELSE Scan(1, v)[1].new_value

\* C8: a load calls update_environment_variables once; the run makes at most
\* one hou.putenv per listed variable, each right after the hou.getenv of the
\* same variable, none for another name; names outside the list keep their
\* presence and value; the final value of a listed variable is a function of
\* its own initial value.
C8_Frame ==
    /\ pc \in {"loop", "loaded", "called"} => runs = 1
    /\ \A j \in 1..Len(log) :
          IsPut(log[j]) => /\ log[j].var \in Listed
                           /\ j > 1
                           /\ IsGet(log[j - 1])
                           /\ log[j - 1].var = log[j].var
    /\ \A var \in Listed : Len(WritesOf(var)) <= 1
    /\ (DOMAIN env) \ Listed = (DOMAIN env0) \ Listed
    /\ \A x \in (DOMAIN env) \ Listed : env[x] = env0[x]
    /\ Done =>
          /\ DOMAIN env = DOMAIN env0
          /\ \A var \in Listed \cap DOMAIN env0 : env[var] = Normalized(env0[var])

\* two listed variables have been rewritten and HIP, which holds an
\* other-platform path, is as it was
C8_Witness ==
    /\ Done
    /\ runs = 1
    /\ Cardinality({ var \in Listed : Len(WritesOf(var)) = 1 }) = 2
    /\ Contains(Other("DROPBOX"), env[Unlisted])

----------------------------------------------------------------------------
(* C9 *)

\* C9: after a run no listed variable's value contains an other-platform
\* path of the table, and a load that starts from the outcome of an earlier
\* load makes no hou.putenv and leaves the environment as it found it.
C9_Idempotent ==
    /\ Done => \A var \in Listed \cap DOMAIN env :
                  \A key \in DOMAIN folder_lookup : ~Contains(Other(key), env[var])
    /\ session0 # {} => /\ env = env0
                        /\ \A j \in 1..Len(log) : ~IsPut(log[j])

\* a second load has finished on an environment the first load rewrote
C9_Witness ==
    /\ pc = "loaded"
    /\ session0 # {}
    /\ Len(log) = Len(var_list)
    /\ env0 # origin
    /\ env = env0

----------------------------------------------------------------------------
(* C10 *)

\* C10: the DROPBOX path is a prefix of the other three groups' paths on
\* both platforms and DROPBOX is scanned first, so whenever some group's
\* other-platform path occurs in a value the group substituted is DROPBOX.
C10_AlwaysDropbox ==
    /\ folder_keys[1] = "DROPBOX"
    /\ \A key \in DOMAIN folder_lookup : \A p \in {"darwin", "Windows"} :
          IsPrefix(folder_lookup["DROPBOX"][p], folder_lookup[key][p])
    /\ \A i \in Set0 :
          (Processed(i) /\ Matching(env0[var_list[i]]) # {})
              => /\ Len(subst[var_list[i]]) = 1
                 /\ subst[var_list[i]][1].key = "DROPBOX"
    /\ \A var \in Listed : \A j \in 1..Len(subst[var]) : subst[var][j].key = "DROPBOX"

\* a value holding the other-platform COURSES path was rewritten through DROPBOX
C10_Witness ==
    /\ Done
    /\ \E i \in Set0 :
          /\ Contains(Other("COURSES"), env0[var_list[i]])
          /\ subst[var_list[i]][1].key = "DROPBOX"
          /\ IsPrefix(Current("COURSES"), env[var_list[i]])

====
